---- MODULE Spec2Model ----
(***************************************************************************)
(* A model of the erm ray marcher: f32 arithmetic, the vector algebra, the *)
(* SDF scene nodes, rays, the scalar and the 8-lane sphere tracers, the    *)
(* render pipeline with its parallel map, and the conversion to bytes.     *)
(*                                                                         *)
(* Numbers.  An f32 is modelled by an integer.  A value v with             *)
(* -FAR <= v <= FAR is the exact fixed-point number v/SCALE.  Outside that *)
(* window only the magnitude class of the float is kept:                   *)
(*    BIG   a finite float beyond the window and below f32::MAX            *)
(*    MAXF  f32::MAX                                                       *)
(*    INF   infinity                                                       *)
(*    NAN   not a number                                                   *)
(* and -BIG, -MAXF, -INF.  The window is larger than every scene, so a     *)
(* point beyond it is far from every surface.  Where two BIG values would  *)
(* have to be subtracted or divided the model has lost the magnitudes; the *)
(* result is NAN, which every consumer in the program treats as it treats  *)
(* the true finite value (f32::max and the comparisons ignore it; a normal *)
(* built from it is as unusable as the zero vector the floats produce).    *)
(***************************************************************************)
EXTENDS Integers, Sequences, FiniteSets, TLC

\* fixed-point resolution: SCALE units are 1.0
SCALE == 1000
\* half-width of the exact window, in units
FAR == 16000

BIG == FAR + 1
MAXF == FAR + 2
INF == FAR + 3
NAN == FAR + 4

\* F applied to the value of e: e is computed once and bound, as by a let
\* statement of the source
Eval(e, F(_)) == CHOOSE r \in {F(x) : x \in {e}} : TRUE

Abs(a) == IF a < 0 THEN -a ELSE a
Sgn(a) == IF a < 0 THEN -1 ELSE IF a > 0 THEN 1 ELSE 0
Exact(a) == -FAR <= a /\ a <= FAR
Finite(a) == a # NAN /\ Abs(a) < INF
\* an out-of-window integer result becomes the class BIG
Sat(x) == IF x > FAR THEN BIG ELSE IF x < -FAR THEN -BIG ELSE x

\* a / b rounded to the nearest integer, b # 0
RDiv(a, b) ==
    LET n == IF b < 0 THEN -a ELSE a
        d == Abs(b)
    IN  IF n >= 0 THEN (2 * n + d) \div (2 * d)
        ELSE -((2 * (-n) + d) \div (2 * d))

RECURSIVE SqrtSearch(_, _, _)
SqrtSearch(n, lo, hi) ==
    IF lo >= hi THEN lo
    ELSE LET mid == (lo + hi + 1) \div 2
         IN  IF mid * mid <= n THEN SqrtSearch(n, mid, hi)
             ELSE SqrtSearch(n, lo, mid - 1)
\* floor of the square root of a natural number
ISqrt(n) == SqrtSearch(n, 0, IF n < 46340 THEN n ELSE 46340)
\* the integer nearest to the square root: f32::sqrt is correctly rounded
RSqrt(n) == Eval(ISqrt(n), LAMBDA r : IF n - r * r > r THEN r + 1 ELSE r)

FNeg(a) == IF a = NAN THEN NAN ELSE -a

FAdd(a, b) ==
    IF a = NAN \/ b = NAN THEN NAN
    ELSE IF Exact(a) /\ Exact(b) THEN Sat(a + b)
    ELSE IF Abs(a) > Abs(b) THEN a
    ELSE IF Abs(b) > Abs(a) THEN b
    ELSE IF a = b THEN (IF Abs(a) = MAXF THEN Sgn(a) * INF ELSE a)
    ELSE IF Abs(a) = MAXF THEN 0
    ELSE NAN

FSub(a, b) == FAdd(a, FNeg(b))

\* product of two positive magnitudes, at least one of them out of the window
MagMul(x, y) ==
    IF x = INF \/ y = INF THEN INF
    ELSE IF x = MAXF \/ y = MAXF THEN
        LET o == IF x = MAXF THEN y ELSE x
        IN  IF o < SCALE THEN BIG ELSE IF o = SCALE THEN MAXF ELSE INF
    ELSE BIG

FMul(a, b) ==
    IF a = NAN \/ b = NAN THEN NAN
    ELSE IF Exact(a) /\ Exact(b) THEN Sat(RDiv(a * b, SCALE))
    ELSE IF a = 0 \/ b = 0 THEN (IF Abs(a) = INF \/ Abs(b) = INF THEN NAN ELSE 0)
    ELSE Sgn(a) * Sgn(b) * MagMul(Abs(a), Abs(b))

FDiv(a, b) ==
    IF a = NAN \/ b = NAN THEN NAN
    ELSE IF b = 0 THEN (IF a = 0 THEN NAN ELSE Sgn(a) * INF)
    ELSE IF Exact(a) /\ Exact(b) THEN Sat(RDiv(a * SCALE, b))
    ELSE IF Abs(a) = INF THEN (IF Abs(b) = INF THEN NAN ELSE Sgn(a) * Sgn(b) * INF)
    ELSE IF Abs(b) = INF \/ a = 0 THEN 0
    ELSE IF Exact(a) THEN 0
    ELSE IF Exact(b) THEN
        Sgn(a) * Sgn(b) * (IF Abs(a) = MAXF /\ Abs(b) < SCALE THEN INF
                           ELSE IF Abs(a) = MAXF /\ Abs(b) = SCALE THEN MAXF
                           ELSE BIG)
    ELSE IF Abs(a) = Abs(b) THEN (IF Abs(a) = MAXF THEN Sgn(a) * Sgn(b) * SCALE ELSE NAN)
    ELSE IF Abs(a) = MAXF THEN Sgn(a) * Sgn(b) * BIG
    ELSE 0

FSqrt(a) ==
    IF a = NAN \/ a < 0 THEN NAN
    ELSE IF Exact(a) THEN RSqrt(a * SCALE)
    ELSE IF a = INF THEN INF
    ELSE BIG

\* the comparisons of f32: false as soon as an operand is NaN
FLt(a, b) == a # NAN /\ b # NAN /\ a < b
FGt(a, b) == FLt(b, a)

\* f32::min, f32::max, simd_min, simd_max: a NaN operand is ignored
FMin(a, b) == IF a = NAN THEN b ELSE IF b = NAN THEN a ELSE IF a < b THEN a ELSE b
FMax(a, b) == IF a = NAN THEN b ELSE IF b = NAN THEN a ELSE IF a > b THEN a ELSE b

\* f32::clamp, simd_clamp: a NaN stays a NaN
FClamp(x, lo, hi) == IF FLt(x, lo) THEN lo ELSE IF FGt(x, hi) THEN hi ELSE x


(***************************************************************************)
(* Vector algebra (vector/f32/vec3.rs and vector/f32x8/vec3.rs, which is   *)
(* the same code lane by lane).  A vector is a tuple of components.        *)
(***************************************************************************)
vec3(x, y, z) == <<x, y, z>>
VZERO == vec3(0, 0, 0)
VAdd(a, b) == vec3(FAdd(a[1], b[1]), FAdd(a[2], b[2]), FAdd(a[3], b[3]))
VSub(a, b) == vec3(FSub(a[1], b[1]), FSub(a[2], b[2]), FSub(a[3], b[3]))
VMul(a, b) == vec3(FMul(a[1], b[1]), FMul(a[2], b[2]), FMul(a[3], b[3]))
VScale(a, s) == vec3(FMul(a[1], s), FMul(a[2], s), FMul(a[3], s))
VNeg(a) == vec3(FNeg(a[1]), FNeg(a[2]), FNeg(a[3]))
VAbs(a) == vec3(IF a[1] = NAN THEN NAN ELSE Abs(a[1]),
                IF a[2] = NAN THEN NAN ELSE Abs(a[2]),
                IF a[3] = NAN THEN NAN ELSE Abs(a[3]))
VMax(a, b) == vec3(FMax(a[1], b[1]), FMax(a[2], b[2]), FMax(a[3], b[3]))
MaxElement(a) == FMax(a[1], FMax(a[2], a[3]))
VExact(a) == Exact(a[1]) /\ Exact(a[2]) /\ Exact(a[3])
Dot(a, b) == FAdd(FAdd(FMul(a[1], b[1]), FMul(a[2], b[2])), FMul(a[3], b[3]))
\* sqrt(dot(v, v)); inside the window the square root is taken of the exact
\* sum of squares, so that the squares do not leave the window before it
Length(a) ==
    IF VExact(a) THEN Sat(RSqrt(a[1] * a[1] + a[2] * a[2] + a[3] * a[3]))
    ELSE FSqrt(Dot(a, a))
LengthRecip(a) == FDiv(SCALE, Length(a))
\* v * (1 / |v|); inside the window evaluated as v / |v|, the reciprocal of a
\* short vector being outside the window
Normalise(a) ==
    Eval(a, LAMBDA v :
    Eval(Length(v), LAMBDA len :
        IF VExact(v) /\ Exact(len) /\ len # 0
        THEN vec3(RDiv(v[1] * SCALE, len), RDiv(v[2] * SCALE, len), RDiv(v[3] * SCALE, len))
        ELSE VScale(v, LengthRecip(v))))
\* self * m + a, component by component
MulAdd(s, m, a) == vec3(FAdd(FMul(s[1], m[1]), a[1]),
                        FAdd(FMul(s[2], m[2]), a[2]),
                        FAdd(FMul(s[3], m[3]), a[3]))
broadcast(v) == vec3(v, v, v)

(***************************************************************************)
(* SDF nodes (sdf.rs).  A node is a record tagged by its kind.             *)
(***************************************************************************)
Sphere(r) == [kind |-> "Sphere", r |-> r]
Box(half) == [kind |-> "Box", half |-> half]
Translate(child, pos) == [kind |-> "Translate", child |-> child, pos |-> pos]
Union(a, b) == [kind |-> "Union", a |-> a, b |-> b]

\* Sphere: p.length() - r
SphereDist_flipped(r, p) == FSub(r, Length(p))
SphereDist(r, p) == FSub(Length(p), r)
\* Translate: the point handed to the child, p - pos
TranslatePoint_added(p, pos) == VAdd(p, pos)
TranslatePoint(p, pos) == VSub(p, pos)
\* Union: a.dist(p).min(b.dist(p)) of the two distances
UnionDist_max(da, db) == FMax(da, db)
UnionDist(da, db) == FMin(da, db)

RECURSIVE dist(_, _)
dist(node, p) ==
    Eval(p, LAMBDA v :
        CASE node.kind = "Sphere" -> SphereDist(node.r, v)
          [] node.kind = "Box" ->
                Eval(VSub(VAbs(v), node.half), LAMBDA q :
                    FAdd(Length(VMax(q, VZERO)), FMin(MaxElement(q), 0)))
          [] node.kind = "Translate" -> dist(node.child, TranslatePoint(v, node.pos))
          [] node.kind = "Union" -> UnionDist(dist(node.a, v), dist(node.b, v)))

(***************************************************************************)
(* Rays (ray.rs)                                                           *)
(***************************************************************************)
RayNew_raw(origin, dir) == [origin |-> origin, dir |-> dir]
RayNew(origin, dir) == [origin |-> origin, dir |-> Normalise(dir)]
RayAt(ray, t) == MulAdd(broadcast(t), ray.dir, ray.origin)

(***************************************************************************)
(* Sphere tracing (march.rs)                                               *)
(***************************************************************************)
\* EPSILON = 0.001 = 1 / EPSILON_INV
EPSILON_INV == 1000
EPSILON == RDiv(SCALE, EPSILON_INV)
MAX_STEPS == 64
MAX_DIST_ten == 10 * SCALE
MAX_DIST == MAXF
LANES == 8
Lanes == 1..LANES
\* the default step reduction w = 0.87 and the floor 0.6 of the overstep ratio
W_DEFAULT == RDiv(87 * SCALE, 100)
RATIO_FLOOR == RDiv(6 * SCALE, 10)

\* h < t * EPSILON; inside the window compared exactly, without rounding the
\* product to the resolution of the model
LtEps_orEqual(h, t) ==
    IF Exact(h) /\ Exact(t) THEN h * EPSILON_INV <= t
    ELSE h # NAN /\ t # NAN /\ h <= FMul(t, EPSILON)
LtEps(h, t) ==
    IF Exact(h) /\ Exact(t) THEN h * EPSILON_INV < t
    ELSE FLt(h, FMul(t, EPSILON))

\* the state of the scalar tracer before its first iteration
ScalarStart_halfRc == [rp |-> 0, rc |-> SCALE \div 2, di |-> 0, t |-> 0]
ScalarStart == [rp |-> 0, rc |-> SCALE, di |-> 0, t |-> 0]

\* the candidate overstep of one scalar iteration
Overstep(w, s) ==
    FAdd(s.rc, FMul(FMul(w, s.rc),
                    FMax(FDiv(FAdd(FSub(s.di, s.rp), s.rc), FSub(FAdd(s.di, s.rp), s.rc)),
                         RATIO_FLOOR)))

\* one iteration of the scalar loop: the new rp, rc, di, t, whether the
\* fallback was taken and whether the iteration returns a hit (the first
\* definition is the body without the second map call of the fallback, the
\* second the body with t += di below the hit test)
ScalarIter_staleRn(map, ray, w, s) ==
    Eval(Overstep(w, s), LAMBDA di1 :
    Eval(dist(map, RayAt(ray, FAdd(s.t, di1))), LAMBDA rn1 :
    Eval(FGt(di1, FAdd(s.rc, rn1)), LAMBDA fb :
    Eval(IF fb THEN s.rc ELSE di1, LAMBDA di2 :
    Eval(FAdd(s.t, di2), LAMBDA t2 :
        [rp |-> s.rc, rc |-> rn1, di |-> di2, t |-> t2, fb |-> fb,
         hit |-> LtEps(rn1, t2)])))))
ScalarIter_testBeforeAdd(map, ray, w, s) ==
    Eval(Overstep(w, s), LAMBDA di1 :
    Eval(dist(map, RayAt(ray, FAdd(s.t, di1))), LAMBDA rn1 :
    Eval(FGt(di1, FAdd(s.rc, rn1)), LAMBDA fb :
    Eval(IF fb THEN s.rc ELSE di1, LAMBDA di2 :
    Eval(IF fb THEN dist(map, RayAt(ray, FAdd(s.t, di2))) ELSE rn1, LAMBDA rn2 :
    Eval(LtEps(rn2, s.t), LAMBDA hit :
        [rp |-> s.rc, rc |-> rn2, di |-> di2, t |-> IF hit THEN s.t ELSE FAdd(s.t, di2),
         fb |-> fb, hit |-> hit]))))))
ScalarIter(map, ray, w, s) ==
    Eval(Overstep(w, s), LAMBDA di1 :
    Eval(dist(map, RayAt(ray, FAdd(s.t, di1))), LAMBDA rn1 :
    Eval(FGt(di1, FAdd(s.rc, rn1)), LAMBDA fb :
    Eval(IF fb THEN s.rc ELSE di1, LAMBDA di2 :
    Eval(IF fb THEN dist(map, RayAt(ray, FAdd(s.t, di2))) ELSE rn1, LAMBDA rn2 :
    Eval(FAdd(s.t, di2), LAMBDA t2 :
        [rp |-> s.rc, rc |-> rn2, di |-> di2, t |-> t2, fb |-> fb,
         hit |-> LtEps(rn2, t2)]))))))

\* Maskable::select on one lane
select_swapped(mask, trueValue, falseValue) == IF mask THEN falseValue ELSE trueValue
select(mask, trueValue, falseValue) == IF mask THEN trueValue ELSE falseValue

\* a value of 8 lanes, lane l holding F(l)
PerLane(F(_)) == <<F(1), F(2), F(3), F(4), F(5), F(6), F(7), F(8)>>

\* mask32x8::all: every lane of the mask is set
AllLanes_any(mask) == \E l \in Lanes : mask[l]
AllLanes(mask) == \A l \in Lanes : mask[l]

\* one iteration of the 8-lane loop on the lanes' rays and distances: the map
\* values, the hit mask, the finished mask and the advanced distances (the
\* first definition is the body adding h in every lane, finished or not)
VectorIter_unmasked(map, rays, t) ==
    Eval(PerLane(LAMBDA l : dist(map, RayAt(rays[l], t[l]))), LAMBDA h :
    Eval(PerLane(LAMBDA l : LtEps(h[l], t[l])), LAMBDA hit :
    Eval(PerLane(LAMBDA l : hit[l] \/ FGt(t[l], MAX_DIST)), LAMBDA finished :
        [h |-> h, hit |-> hit, finished |-> finished,
         all |-> AllLanes(finished),
         t |-> PerLane(LAMBDA l : FAdd(t[l], h[l]))])))
VectorIter(map, rays, t) ==
    Eval(PerLane(LAMBDA l : dist(map, RayAt(rays[l], t[l]))), LAMBDA h :
    Eval(PerLane(LAMBDA l : LtEps(h[l], t[l])), LAMBDA hit :
    Eval(PerLane(LAMBDA l : hit[l] \/ FGt(t[l], MAX_DIST)), LAMBDA finished :
        [h |-> h, hit |-> hit, finished |-> finished,
         all |-> AllLanes(finished),
         t |-> PerLane(LAMBDA l : FAdd(t[l], select(finished[l], 0, h[l])))])))

(***************************************************************************)
(* Ray generation (main.rs, render)                                        *)
(***************************************************************************)
Min(a, b) == IF a < b THEN a ELSE b
\* ((pos * 2) - res) / -res.min_element(); the numerator and the denominator
\* are small integers, exact in f32
ScreenUV_unflipped(x, y, width, height) ==
    <<Sat(RDiv((2 * x - width) * SCALE, Min(width, height))),
      Sat(RDiv((2 * y - height) * SCALE, Min(width, height)))>>
ScreenUV(x, y, width, height) ==
    <<Sat(RDiv((2 * x - width) * SCALE, -Min(width, height))),
      Sat(RDiv((2 * y - height) * SCALE, -Min(width, height)))>>
PixelRay(origin, x, y, width, height) ==
    LET uv == ScreenUV(x, y, width, height)
    IN  RayNew(origin, vec3(uv[1], uv[2], -2 * SCALE))


(***************************************************************************)
(* State.  cfg holds the inputs of the run (scene, camera, pixel or image);*)
(* sc is the scalar tracer, vc the 8-lane tracer, rd the render pass.      *)
(***************************************************************************)
\* cfg: the inputs; sc, vc: the scalar and the 8-lane tracer; rd: the render
\* pass; ev: the call of a single function and what it returned
VARIABLES cfg, sc, vc, rd, ev
vars == <<cfg, sc, vc, rd, ev>>

\* the scene of main: a sphere of radius 0.5 at the origin
MainScene == Sphere(SCALE \div 2)
\* a small sphere half a unit in front of the camera of main
NearScene == Translate(Sphere(SCALE \div 10), vec3(0, 0, (3 * SCALE) \div 2))
\* a sphere and a box beside it
PairScene == Union(Sphere(SCALE \div 2),
                   Translate(Box(vec3(SCALE \div 4, SCALE \div 4, SCALE \div 4)),
                             vec3(SCALE, 0, 0)))
Scenes == {MainScene, NearScene, PairScene}
\* the camera of main, a camera 0.6 in front of the sphere of main, a camera
\* on the surface of that sphere and a camera inside it
MainOrigin == vec3(0, 0, 2 * SCALE)
Origins == {MainOrigin, vec3(0, 0, (11 * SCALE) \div 10), vec3(0, 0, SCALE \div 2),
            vec3(0, 0, (3 * SCALE) \div 10)}
\* pixels of a 64 x 64 image: the centre, a corner, and three pixels of the
\* centre column whose rays pass the sphere of main ever closer to its rim
Pixels == {[x |-> 32, y |-> 32, width |-> 64, height |-> 64],
           [x |-> 0, y |-> 0, width |-> 64, height |-> 64],
           [x |-> 32, y |-> 20, width |-> 64, height |-> 64],
           [x |-> 32, y |-> 16, width |-> 64, height |-> 64],
           [x |-> 32, y |-> 15, width |-> 64, height |-> 64]}

\* the ray of the traced pixel
TheRay == PixelRay(cfg.origin, cfg.px.x, cfg.px.y, cfg.px.width, cfg.px.height)
\* the rays of the 8 lanes: 8 copies of the pixel's ray, or the rays of the
\* 8 pixels of the pixel's lane group (8 consecutive x, one y)
LaneRays ==
    IF cfg.wave = "copies" THEN PerLane(LAMBDA l : TheRay)
    ELSE PerLane(LAMBDA l :
            PixelRay(cfg.origin, cfg.px.x - (cfg.px.x % LANES) + (l - 1), cfg.px.y,
                     cfg.px.width, cfg.px.height))
\* the lane that traces the pixel itself
OwnLane == IF cfg.wave = "copies" THEN 1 ELSE (cfg.px.x % LANES) + 1

Idle == [pc |-> "idle"]

\* trail is the record of the iterations run so far: the step each added to
\* t and whether it took the fallback
ScInit == [pc |-> "loop", i |-> 0, evals |-> 0, fb |-> FALSE, trail |-> <<>>,
           rp |-> ScalarStart.rp, rc |-> ScalarStart.rc, di |-> ScalarStart.di,
           t |-> ScalarStart.t, distance |-> 0, hit |-> FALSE]
VcInit == [pc |-> "loop", i |-> 0, evals |-> 0, finished |-> PerLane(LAMBDA l : FALSE),
           t |-> PerLane(LAMBDA l : 0), hit |-> PerLane(LAMBDA l : FALSE),
           distance |-> PerLane(LAMBDA l : 0)]

TraceInit ==
    /\ cfg \in [scene : Scenes, origin : Origins, px : Pixels, wave : {"copies", "group"}]
    /\ sc = ScInit
    /\ vc = VcInit
    /\ rd = Idle
    /\ ev = Idle

\* for _ in 0..MAX_STEPS: after i iterations the range has another one left
WithinBudget_inclusive(i) == i <= MAX_STEPS
WithinBudget(i) == i < MAX_STEPS

\* one pass through the body of the scalar loop (march.rs 65-84)
ScalarStep ==
    /\ sc.pc = "loop"
    /\ WithinBudget(sc.i)
    /\ \E n \in {ScalarIter(cfg.scene, TheRay, W_DEFAULT, sc)} :
           sc' = [sc EXCEPT !.i = @ + 1,
                            !.evals = @ + (IF n.fb THEN 2 ELSE 1),
                            !.fb = n.fb,
                            !.trail = Append(@, [di |-> n.di, fb |-> n.fb]),
                            !.rp = IF n.hit THEN @ ELSE n.rp,
                            !.rc = IF n.hit THEN @ ELSE n.rc,
                            !.di = n.di,
                            !.t = n.t,
                            !.pc = IF n.hit THEN "done" ELSE @,
                            !.distance = IF n.hit THEN n.t ELSE @,
                            !.hit = n.hit]
    /\ UNCHANGED <<cfg, vc, rd, ev>>

\* the Trace returned when the scalar loop ends without a hit (march.rs 86-89)
ScalarMiss_lastT == [distance |-> sc.t, hit |-> FALSE]
ScalarMiss == [distance |-> MAX_DIST, hit |-> FALSE]

\* the step budget is used up: the scalar tracer reports a miss
ScalarExhaust ==
    /\ sc.pc = "loop"
    /\ ~WithinBudget(sc.i)
    /\ sc' = [sc EXCEPT !.pc = "done", !.distance = ScalarMiss.distance,
                        !.hit = ScalarMiss.hit]
    /\ UNCHANGED <<cfg, vc, rd, ev>>

\* one pass through the body of the 8-lane loop (march.rs 108-121); the ray
\* is traced by the scalar tracer first, then by the 8-lane tracer
VectorStep ==
    /\ sc.pc = "done"
    /\ vc.pc = "loop"
    /\ WithinBudget(vc.i)
    /\ \E n \in {VectorIter(cfg.scene, LaneRays, vc.t)} :
           vc' = [vc EXCEPT !.i = @ + 1,
                            !.evals = @ + 1,
                            !.hit = n.hit,
                            !.finished = n.finished,
                            !.t = IF n.all THEN @ ELSE n.t,
                            !.pc = IF n.all THEN "break" ELSE @]
    /\ UNCHANGED <<cfg, sc, rd, ev>>

\* the loop is left, by break or by the budget: return t and the last mask
\* (march.rs 122)
VectorReturn ==
    /\ sc.pc = "done"
    /\ \/ vc.pc = "break"
       \/ vc.pc = "loop" /\ ~WithinBudget(vc.i)
    /\ vc' = [vc EXCEPT !.pc = "done", !.distance = vc.t]
    /\ UNCHANGED <<cfg, sc, rd, ev>>

TraceNext == ScalarStep \/ ScalarExhaust \/ VectorStep \/ VectorReturn
TraceSpec == TraceInit /\ [][TraceNext]_vars



(***************************************************************************)
(* The tracers as functions (march.rs trace): the loops above, run to      *)
(* their return.  A run of n iterations is the run of its first half       *)
(* followed, unless that returned or broke, by the run of its second half. *)
(***************************************************************************)
\* the scalar loop after at most n >= 1 further iterations from state s; the
\* result has hit = TRUE when the loop returned in one of them
RECURSIVE ScalarRun(_, _, _, _, _)
ScalarRun(map, ray, w, s, n) ==
    IF n = 1 THEN ScalarIter(map, ray, w, s)
    ELSE Eval(ScalarRun(map, ray, w, s, n \div 2), LAMBDA m :
             IF m.hit THEN m ELSE ScalarRun(map, ray, w, m, n - (n \div 2)))
ScalarTrace(map, ray) ==
    Eval(ScalarRun(map, ray, W_DEFAULT, ScalarStart, MAX_STEPS), LAMBDA e :
        IF e.hit THEN [distance |-> e.t, hit |-> TRUE] ELSE ScalarMiss)

\* t and the hit mask after one iteration of the 8-lane loop, and whether the
\* iteration left the loop
VectorAfter(map, rays, t) ==
    Eval(VectorIter(map, rays, t), LAMBDA n :
        [t |-> IF n.all THEN t ELSE n.t, hit |-> n.hit, all |-> n.all])
\* the 8-lane loop after at most n >= 1 iterations from the distances t
RECURSIVE VectorRun(_, _, _, _)
VectorRun(map, rays, t, n) ==
    IF n = 1 THEN VectorAfter(map, rays, t)
    ELSE Eval(VectorRun(map, rays, t, n \div 2), LAMBDA m :
             IF m.all THEN m ELSE VectorRun(map, rays, m.t, n - (n \div 2)))
VectorTrace(map, rays) ==
    Eval(VectorRun(map, rays, PerLane(LAMBDA l : 0), MAX_STEPS), LAMBDA e :
        [distance |-> e.t, hit |-> e.hit])

(***************************************************************************)
(* Normal estimation (march.rs normal)                                     *)
(***************************************************************************)
normal(map, p) ==
    LET x == SCALE
        y == -SCALE
        xyy == vec3(x, y, y)
        yyx == vec3(y, y, x)
        yxy == vec3(y, x, y)
        xxx == vec3(x, x, x)
        s(k) == Eval(dist(map, VAdd(p, VScale(k, EPSILON))), LAMBDA d : VScale(k, d))
    IN  Normalise(VAdd(VAdd(VAdd(s(xyy), s(yyx)), s(yxy)), s(xxx)))

(***************************************************************************)
(* Shading (main.rs phong and the body of render's map)                    *)
(***************************************************************************)
\* powf(x, 20.0), by squaring
PowfShine(x) ==
    Eval(FMul(x, x), LAMBDA x2 :
    Eval(FMul(x2, x2), LAMBDA x4 :
    Eval(FMul(x4, x4), LAMBDA x8 :
        FMul(FMul(x8, x8), x4))))

\* powf(x, 1.0 / 2.2): the curve through its values at the knots, in
\* thousandths; NaN for a NaN or a negative x
GammaKnots == << <<0, 0>>, <<1, 43>>, <<5, 90>>, <<10, 123>>, <<25, 187>>, <<50, 256>>,
                 <<100, 351>>, <<175, 453>>, <<250, 533>>, <<375, 640>>, <<500, 730>>,
                 <<750, 877>>, <<1000, 1000>>, <<1500, 1202>>, <<2000, 1370>>,
                 <<3000, 1648>>, <<4000, 1878>>, <<6000, 2258>>, <<8000, 2573>>,
                 <<12000, 3094>>, <<16000, 3526>> >>
Knot(k) == <<RDiv(GammaKnots[k][1] * SCALE, 1000), RDiv(GammaKnots[k][2] * SCALE, 1000)>>
PowfGamma(x) ==
    IF x = NAN \/ x < 0 THEN NAN
    ELSE IF x = INF THEN INF
    ELSE IF ~Exact(x) THEN BIG
    ELSE IF x >= Knot(Len(GammaKnots))[1] THEN Knot(Len(GammaKnots))[2]
    ELSE Eval(CHOOSE j \in 1..(Len(GammaKnots) - 1) : Knot(j)[1] <= x /\ x < Knot(j + 1)[1],
              LAMBDA k :
         Eval(<<Knot(k), Knot(k + 1)>>, LAMBDA ab :
              ab[1][2] + RDiv((x - ab[1][1]) * (ab[2][2] - ab[1][2]), ab[2][1] - ab[1][1])))
VPowfGamma(a) ==
    Eval(a, LAMBDA v : vec3(PowfGamma(v[1]), PowfGamma(v[2]), PowfGamma(v[3])))

phong(ldir, nor, eye) ==
    LET ks == 3 * SCALE
        kd == 3 * SCALE
        ka == SCALE
    IN  Eval(VSub(VScale(VScale(nor, Dot(nor, ldir)), 2 * SCALE), ldir), LAMBDA rm :
        Eval(FClamp(Dot(ldir, nor), 0, SCALE), LAMBDA diffuse :
        Eval(PowfShine(FClamp(Dot(rm, eye), 0, SCALE)), LAMBDA specular :
            FAdd(ka, FAdd(FMul(kd, diffuse), FMul(ks, specular))))))

\* the colour before post processing: material * light, times 1 or 0
Masked(col, hit) == VScale(col, select(hit, SCALE, 0))

\* gain correction: (col * 1.8) / (1 + col.dot(broadcast(1/3)))
Gain_undivided(col) == VScale(col, (18 * SCALE) \div 10)
Gain(col) ==
    Eval(col, LAMBDA c :
    Eval(FAdd(SCALE, Dot(c, broadcast(RDiv(SCALE, 3)))), LAMBDA den :
        vec3(FDiv(FMul(c[1], (18 * SCALE) \div 10), den),
             FDiv(FMul(c[2], (18 * SCALE) \div 10), den),
             FDiv(FMul(c[3], (18 * SCALE) \div 10), den))))
\* gain and gamma correction
PostProcess(col) == VPowfGamma(Gain(col))

\* the colour of one ray (one pixel, or one lane of a group) from its trace
Colour(map, ldir, mat, ray, distance, hit) ==
    Eval(RayAt(ray, distance), LAMBDA pos :
    Eval(normal(map, pos), LAMBDA nor :
    Eval(phong(ldir, nor, VNeg(ray.dir)), LAMBDA lin :
    Eval(VScale(mat, lin), LAMBDA col :
        PostProcess(Masked(col, hit))))))

\* the light direction and the material of main
MainLight == Normalise(vec3(SCALE, 3 * SCALE, SCALE))
MainMaterial == vec3(SCALE \div 2, SCALE \div 5, SCALE \div 2)

(***************************************************************************)
(* Work list, work items and bytes (main.rs Positions, render, ImageBytes) *)
(***************************************************************************)
\* <f32 as Positions>::positions: one position per pixel index
PositionsScalar(width, height) ==
    [k \in 1..(width * height) |-> <<(k - 1) % width, (k - 1) \div width>>]
\* <f32x8 as Positions>::positions: one group per 8 pixel indices; 8 values
\* of x and one y, as <<xs, y>>
PositionsVector_perIndex(width, height) ==
    [g \in 1..(width * height) |->
        <<PerLane(LAMBDA l : ((g - 1) % width) + (l - 1)), (g - 1) \div width>>]
PositionsVector(width, height) ==
    [g \in 1..((width * height + LANES - 1) \div LANES) |->
        <<PerLane(LAMBDA l : ((LANES * (g - 1)) % width) + (l - 1)),
          (LANES * (g - 1)) \div width>>]
positions(c) ==
    IF c.mode = "scalar" THEN PositionsScalar(c.width, c.height)
    ELSE PositionsVector(c.width, c.height)

\* the body of render's map on a pixel: the Vec3 it returns, and the hit
\* flag of its trace
RenderPixel(c, pos) ==
    Eval(PixelRay(c.origin, pos[1], pos[2], c.width, c.height), LAMBDA ray :
    Eval(ScalarTrace(c.scene, ray), LAMBDA tr :
        [hit |-> tr.hit, col |-> Colour(c.scene, c.ldir, c.mat, ray, tr.distance, tr.hit)]))

\* the body of render's map on a lane group: the Vec3x8 it returns, that is
\* the lanes of x, of y and of z, and the hit mask of its trace
RenderGroup(c, pos) ==
    Eval(PerLane(LAMBDA l : PixelRay(c.origin, pos[1][l], pos[2], c.width, c.height)),
         LAMBDA rays :
    Eval(VectorTrace(c.scene, rays), LAMBDA tr :
    Eval(PerLane(LAMBDA l : Colour(c.scene, c.ldir, c.mat, rays[l], tr.distance[l], tr.hit[l])),
         LAMBDA col :
        [hit |-> tr.hit,
         col |-> <<PerLane(LAMBDA l : col[l][1]), PerLane(LAMBDA l : col[l][2]),
                   PerLane(LAMBDA l : col[l][3])>>])))

RenderItem(c, pos) == IF c.mode = "scalar" THEN RenderPixel(c, pos) ELSE RenderGroup(c, pos)

\* (x * 255.0) as u8: the cast truncates, saturates, and maps NaN to 0
conv_wrapping(x) ==
    IF x = NAN \/ x <= 0 THEN 0
    ELSE IF ~Exact(x) THEN 0
    ELSE ((x * 255) \div SCALE) % 256
conv(x) ==
    IF x = NAN \/ x <= 0 THEN 0
    ELSE IF ~Exact(x) THEN 255
    ELSE Min(255, (x * 255) \div SCALE)

\* flatten: the arrays of the vector one after the other
RECURSIVE flatten_tailFirst(_)
flatten_tailFirst(v) == IF v = <<>> THEN <<>> ELSE flatten_tailFirst(Tail(v)) \o Head(v)
RECURSIVE flatten(_)
flatten(v) == IF v = <<>> THEN <<>> ELSE Head(v) \o flatten(Tail(v))

\* the 3 bytes of a Vec3
PixelBytes(col) == <<conv(col[1]), conv(col[2]), conv(col[3])>>
\* the 24 bytes of a Vec3x8: chunk i holds lane i of x, of y and of z
GroupBytes_planar(col) ==
    [j \in 1..(3 * LANES) |-> conv(col[((j - 1) \div LANES) + 1][((j - 1) % LANES) + 1])]
GroupBytes(col) ==
    [j \in 1..(3 * LANES) |-> conv(col[((j - 1) % 3) + 1][((j - 1) \div 3) + 1])]

\* ImageBytes::bytes of Vec<Vec3> and of Vec<Vec3x8>
bytes(mode, out) ==
    IF mode = "scalar" THEN flatten([k \in 1..Len(out) |-> PixelBytes(out[k])])
    ELSE flatten([k \in 1..Len(out) |-> GroupBytes(out[k])])

(***************************************************************************)
(* The render pass (main.rs render, then bytes): the work list is built,   *)
(* the workers of the pool take the items in any order and each writes the *)
(* colour of its item to the item's place of the collected vector; the     *)
(* vector is then turned into bytes.  The pass is run twice on its inputs. *)
(***************************************************************************)
\* number of workers of the pool
NumWorkers == 2

NONE == <<>>

\* the inputs of main on small images: per pixel on 2 x 2 and 3 x 2, per lane
\* group on 8 x 2 and 16 x 2, and per lane group on a width, 4, that is not
\* a multiple of the lane count
Input(mode, width, height, scene) ==
    [mode |-> mode, width |-> width, height |-> height, scene |-> scene,
     origin |-> MainOrigin, ldir |-> MainLight, mat |-> MainMaterial]
RenderInputs ==
    {Input("scalar", 2, 2, PairScene), Input("scalar", 3, 2, MainScene),
     Input("vector", 8, 2, PairScene), Input("vector", 16, 2, MainScene),
     Input("vector", 4, 2, MainScene)}

RenderInit ==
    /\ cfg \in RenderInputs
    /\ sc = Idle
    /\ vc = Idle
    /\ ev = Idle
    /\ rd = [pc |-> "start", run |-> 1, work |-> <<>>, status |-> <<>>, slots |-> <<>>,
             hits |-> <<>>, ndone |-> 0, out |-> <<>>, bufs |-> <<>>]

Items == 1..Len(rd.work)
Busy == {k \in Items : rd.status[k] = "busy"}

\* V::positions(width, height).into_par_iter()
RenderStart ==
    /\ rd.pc = "start"
    /\ LET w == positions(cfg)
       IN  rd' = [rd EXCEPT !.pc = "map", !.work = w,
                            !.status = [k \in 1..Len(w) |-> "todo"],
                            !.slots = [k \in 1..Len(w) |-> NONE],
                            !.hits = [k \in 1..Len(w) |-> NONE],
                            !.ndone = 0]
    /\ UNCHANGED <<cfg, sc, vc, ev>>

\* a free worker takes an item of the work list
TakeItem(k) ==
    /\ rd.pc = "map"
    /\ rd.status[k] = "todo"
    /\ Cardinality(Busy) < NumWorkers
    /\ rd' = [rd EXCEPT !.status[k] = "busy"]
    /\ UNCHANGED <<cfg, sc, vc, ev>>

\* the place of the collected vector that item k is written to, ndone items
\* being complete
SlotOf_completion(k, ndone) == ndone + 1
SlotOf(k, ndone) == k

\* the worker completes its item
FinishItem(k) ==
    /\ rd.pc = "map"
    /\ rd.status[k] = "busy"
    /\ LET r == RenderItem(cfg, rd.work[k])
           at == SlotOf(k, rd.ndone)
       IN  rd' = [rd EXCEPT !.status[k] = "done", !.slots[at] = r.col,
                            !.hits[at] = r.hit, !.ndone = @ + 1]
    /\ UNCHANGED <<cfg, sc, vc, ev>>

\* .collect(): render returns the vector
Collect ==
    /\ rd.pc = "map"
    /\ \A k \in Items : rd.status[k] = "done"
    /\ rd' = [rd EXCEPT !.pc = "bytes", !.out = rd.slots]
    /\ UNCHANGED <<cfg, sc, vc, ev>>

\* buf.bytes()
ToBytes ==
    /\ rd.pc = "bytes"
    /\ rd' = [rd EXCEPT !.pc = "ran", !.bufs = Append(@, bytes(cfg.mode, rd.out))]
    /\ UNCHANGED <<cfg, sc, vc, ev>>

\* the pass is run again on the same inputs
Rerun ==
    /\ rd.pc = "ran"
    /\ rd.run = 1
    /\ rd' = [rd EXCEPT !.pc = "start", !.run = 2, !.work = <<>>, !.status = <<>>,
                        !.slots = <<>>, !.hits = <<>>, !.ndone = 0, !.out = <<>>]
    /\ UNCHANGED <<cfg, sc, vc, ev>>

RenderNext ==
    \/ RenderStart
    \/ \E k \in Items : TakeItem(k)
    \/ \E k \in Items : FinishItem(k)
    \/ Collect
    \/ ToBytes
    \/ Rerun
RenderSpec == RenderInit /\ [][RenderNext]_vars

(***************************************************************************)
(* Properties of the tracers, checked under TraceSpec                      *)
(***************************************************************************)
BothDone == sc.pc = "done" /\ vc.pc = "done"
\* |a - b| <= 1e-3 for two distances inside the window
Within(a, b) == Exact(a) /\ Exact(b) /\ Abs(a - b) * EPSILON_INV <= SCALE
CentrePixel == [x |-> 32, y |-> 32, width |-> 64, height |-> 64]
EndToEnd == cfg.scene = MainScene /\ cfg.origin = MainOrigin /\ cfg.px = CentrePixel

\* C1: in the end-to-end scenario (sphere of radius 0.5 at the origin, camera
\* at (0,0,2), 64 x 64 image) the ray of the centre pixel (32,32) has the
\* direction (0,0,-1), and both the scalar and the 8-lane tracer return
\* hit = true with a distance within 1e-3 of 1.5.
C1_CentrePixelHit ==
    EndToEnd =>
        /\ TheRay.dir = vec3(0, 0, -SCALE)
        /\ LaneRays[OwnLane] = TheRay
        /\ sc.pc = "done" => sc.hit /\ Within(sc.distance, (3 * SCALE) \div 2)
        /\ vc.pc = "done" => vc.hit[OwnLane] /\ Within(vc.distance[OwnLane], (3 * SCALE) \div 2)
C1_Witness == EndToEnd /\ BothDone /\ sc.hit /\ vc.hit[OwnLane]

\* C2 (as claimed): whenever the scalar trace of a ray reports a miss, the
\* 8-lane trace of 8 copies of that ray reports a miss in every lane.
C2_MissAgreement ==
    (cfg.wave = "copies" /\ BothDone /\ ~sc.hit) => \A l \in Lanes : ~vc.hit[l]

\* C3 (as claimed): whenever the scalar trace and the 8-lane trace of 8
\* copies of the ray both report a hit, the two distances differ by at most
\* 1e-3.
C3_HitDistanceAgreement ==
    (cfg.wave = "copies" /\ BothDone /\ sc.hit) =>
        \A l \in Lanes : vc.hit[l] => Within(sc.distance, vc.distance[l])

\* C4: a scalar trace in which none of the 64 iterations passes the hit test
\* returns exactly distance = f32::MAX and hit = false, after 64 iterations;
\* the tracer has no other outcome than a hit or this miss.
C4_ScalarMissSentinel ==
    /\ sc.pc \in {"loop", "done"}
    /\ (sc.pc = "done" /\ ~sc.hit) => sc.distance = MAXF /\ sc.i = MAX_STEPS
    /\ (sc.pc = "done" /\ sc.hit) => sc.distance = sc.t /\ sc.i <= MAX_STEPS
C4_Witness == sc.pc = "done" /\ ~sc.hit /\ sc.i = MAX_STEPS

\* C5 (as claimed): every lane the 8-lane trace returns with hit = false has
\* the distance f32::MAX, and every lane returned with hit = true has the
\* distance travelled along its ray.
C5_VectorMissSentinel ==
    vc.pc = "done" =>
        \A l \in Lanes : IF vc.hit[l] THEN vc.distance[l] = vc.t[l]
                         ELSE vc.distance[l] = MAXF


(***************************************************************************)
(* Properties of the render pass, checked under RenderSpec                 *)
(***************************************************************************)
Filled == {k \in Items : rd.slots[k] # NONE}
\* the colour of lane l of a Vec3x8
LaneColour(col, l) == vec3(col[1][l], col[2][l], col[3][l])
LastBuf == rd.bufs[Len(rd.bufs)]
\* the number of pixels and the index of pixel (x, y) in row-major order
Pixels2D == cfg.width * cfg.height
PixelIndex(x, y) == y * cfg.width + x

\* C6 (as claimed): the colour render returns for a pixel (scalar mode) or a
\* lane (8-lane mode) whose trace reports hit = false is exactly (0,0,0).
C6_MissIsBlack ==
    rd.pc = "map" =>
        \A k \in Filled :
            IF cfg.mode = "scalar" THEN ~rd.hits[k] => rd.slots[k] = VZERO
            ELSE \A l \in Lanes : ~rd.hits[k][l] => LaneColour(rd.slots[k], l) = VZERO

\* C7: two runs of render followed by bytes() on the same inputs give the
\* same bytes, whatever the order in which the workers took and completed
\* the items in either run.
C7_Deterministic == Len(rd.bufs) = 2 => rd.bufs[1] = rd.bufs[2]
C7_Witness ==
    /\ Len(rd.bufs) = 2
    /\ \E j \in 1..Len(rd.bufs[2]) : rd.bufs[2][j] # 0

\* C8: whatever the order of the workers, an item of the work list is
\* complete exactly when its own place of the output is written, as many
\* places are written as items are complete, and element k of the vector
\* render returns is the colour of the k-th position of the row-major list
\* of pixels (of groups of 8 pixels).
C8_OrderPreserved ==
    /\ rd.pc = "map" =>
          /\ \A k \in Items : (rd.status[k] = "done") <=> (k \in Filled)
          /\ Cardinality(Filled) = rd.ndone
    /\ rd.pc = "bytes" =>
          /\ Len(rd.out) = (IF cfg.mode = "scalar" THEN Pixels2D
                            ELSE (Pixels2D + LANES - 1) \div LANES)
          /\ \A k \in 1..Len(rd.out) :
                rd.out[k] =
                    IF cfg.mode = "scalar"
                    THEN RenderPixel(cfg, <<(k - 1) % cfg.width, (k - 1) \div cfg.width>>).col
                    ELSE RenderGroup(cfg, <<PerLane(LAMBDA l : ((LANES * (k - 1)) % cfg.width) + l - 1),
                                            (LANES * (k - 1)) \div cfg.width>>).col
C8_Witness ==
    /\ rd.pc = "bytes"
    /\ Len(rd.out) > 1
    /\ \E j, k \in 1..Len(rd.out) : rd.out[j] # rd.out[k]

\* C9: bytes() of the vector render returns has width * height * 3 bytes, and
\* the bytes at 3 * (y * width + x) + 0, 1, 2 are the R, G, B bytes of pixel
\* (x, y); per pixel for every width and height, per lane group when the
\* width is a multiple of 8.
C9_BufferShape ==
    (rd.pc = "ran" /\ (cfg.mode = "vector" => cfg.width % LANES = 0)) =>
        /\ Len(LastBuf) = Pixels2D * 3
        /\ \A k \in 1..Len(rd.work) :
              IF cfg.mode = "scalar"
              THEN LET at == 3 * PixelIndex(rd.work[k][1], rd.work[k][2])
                   IN  /\ rd.work[k][1] < cfg.width /\ rd.work[k][2] < cfg.height
                       /\ \A c \in 1..3 : LastBuf[at + c] = conv(rd.out[k][c])
              ELSE \A l \in Lanes :
                   LET at == 3 * PixelIndex(rd.work[k][1][l], rd.work[k][2])
                   IN  /\ rd.work[k][1][l] < cfg.width /\ rd.work[k][2] < cfg.height
                       /\ \A c \in 1..3 : LastBuf[at + c] = conv(rd.out[k][c][l])
        /\ \A x \in 0..(cfg.width - 1), y \in 0..(cfg.height - 1) :
              \E k \in 1..Len(rd.work) :
                  IF cfg.mode = "scalar" THEN rd.work[k] = <<x, y>>
                  ELSE rd.work[k][2] = y /\ \E l \in Lanes : rd.work[k][1][l] = x
C9_Witness ==
    /\ rd.pc = "ran"
    /\ cfg.mode = "vector"
    /\ cfg.width % LANES = 0
    /\ \E j \in 1..Len(LastBuf) : LastBuf[j] # 0

\* C10: bytes() of a Vec<Vec3x8> puts, for every group g and lane i, the
\* three bytes conv(x[i]), conv(y[i]), conv(z[i]) at 24 * g + 3 * i + 0, 1, 2
\* (g and i counted from 0): 8 RGB triples per group, groups in their order.
C10_LaneDeinterleave ==
    (rd.pc = "ran" /\ cfg.mode = "vector") =>
        /\ Len(LastBuf) = 3 * LANES * Len(rd.out)
        /\ \A g \in 1..Len(rd.out) : \A i \in Lanes : \A c \in 1..3 :
              LastBuf[3 * LANES * (g - 1) + 3 * (i - 1) + c] = conv(rd.out[g][c][i])
C10_Witness ==
    /\ rd.pc = "ran"
    /\ cfg.mode = "vector"
    /\ \E g \in 1..Len(rd.out) : \E i \in Lanes :
          conv(rd.out[g][1][i]) # conv(rd.out[g][2][i])

(***************************************************************************)
(* Single calls.  One function of the program is called on arguments drawn *)
(* from small sets; ev holds the call and what it returned.  A behaviour   *)
(* is one call.                                                            *)
(***************************************************************************)
\* widths are up to MaxGroupsPerRow groups of 8 pixels, and the widths half a
\* group short of them; heights are up to MaxHeight
MaxGroupsPerRow == 3
MaxHeight == 3
Widths == {LANES * k : k \in 1..MaxGroupsPerRow} \cup {LANES * k - 4 : k \in 1..MaxGroupsPerRow}
Heights == 1..MaxHeight

\* no call made yet
NoCall == [op |-> "none"]
FnInit ==
    /\ ev = NoCall
    /\ cfg = Idle
    /\ sc = Idle
    /\ vc = Idle
    /\ rd = Idle

\* <f32x8 as Positions>::positions(width, height)
CallPositions ==
    /\ ev = NoCall
    /\ \E w \in Widths, h \in Heights :
          ev' = [op |-> "positions", width |-> w, height |-> h, out |-> PositionsVector(w, h)]
    /\ UNCHANGED <<cfg, sc, vc, rd>>

\* channel values run from -1.0 to MaxLight, and the values out of the window
MaxLight == 7
Specials == {NAN, INF, -INF, MAXF, -MAXF, BIG, -BIG}
Channels == ((-SCALE)..(MaxLight * SCALE)) \cup Specials

\* conv(x)
CallConv ==
    /\ ev = NoCall
    /\ \E x \in Channels : ev' = [op |-> "conv", x |-> x, out |-> conv(x)]
    /\ UNCHANGED <<cfg, sc, vc, rd>>

\* colours before the gain step: channels at the eighths of MaxLight, and the
\* material of main lit by 1.0 .. MaxLight
LightLevels == {(k * MaxLight * SCALE) \div 8 : k \in 0..8}
Colours == (LightLevels \X LightLevels \X LightLevels)
              \cup {VScale(MainMaterial, l * SCALE) : l \in 1..MaxLight}

\* the gain step of render on a colour
CallGain ==
    /\ ev = NoCall
    /\ \E c \in Colours : ev' = [op |-> "gain", col |-> c, out |-> Gain(c)]
    /\ UNCHANGED <<cfg, sc, vc, rd>>

\* images of up to MaxSide by MaxSide pixels
MaxSide == 8
Sides == 1..MaxSide

\* the uv coordinates render computes for the pixel (x, y)
CallScreenUV ==
    /\ ev = NoCall
    /\ \E w \in Sides, h \in Sides :
          \E x \in 0..(w - 1), y \in 0..(h - 1) :
              ev' = [op |-> "uv", x |-> x, y |-> y, width |-> w, height |-> h,
                     out |-> ScreenUV(x, y, w, h)]
    /\ UNCHANGED <<cfg, sc, vc, rd>>

\* coordinates of points: -1.0, -0.5, -0.3, 0, 0.01, 0.3, 0.4, 0.5 and 1.0;
\* some of the points lie on the spheres of radius 0.5 and 1.0, some a
\* hundredth beside them
Coords == {-SCALE, -(SCALE \div 2), -((3 * SCALE) \div 10), 0, SCALE \div 100,
           (3 * SCALE) \div 10, (2 * SCALE) \div 5, SCALE \div 2, SCALE}
Points == (Coords \X Coords \X Coords)
             \cup {vec3(BIG, 0, 0), vec3(0, -INF, 0), vec3(0, 0, NAN), vec3(MAXF, MAXF, 0)}
Offsets == {vec3(SCALE, 0, 0), vec3(0, -(SCALE \div 2), (3 * SCALE) \div 10), VZERO}
Shapes == {Sphere(SCALE \div 2), Sphere(SCALE), Box(vec3(SCALE \div 4, SCALE \div 4, SCALE \div 4))}
Moved == {Translate(c, v) : c \in Shapes, v \in Offsets}
Nodes == Shapes \cup Moved
            \cup {Union(a, b) : a \in Shapes, b \in Moved}
            \cup {Union(a, b) : a \in Moved, b \in Shapes}
            \cup {Translate(Union(a, b), v) : a \in Shapes, b \in Shapes, v \in Offsets}
            \cup {Union(PairScene, NearScene), Union(NearScene, PairScene)}

\* node.dist(p); given is the node as passed, node the node after the call
CallDist ==
    /\ ev = NoCall
    /\ \E n \in Nodes, p \in Points :
          ev' = [op |-> "dist", given |-> n, node |-> n, p |-> p, out |-> dist(n, p)]
    /\ UNCHANGED <<cfg, sc, vc, rd>>

\* origins of rays: the world origin, the camera of main and a point off the
\* axes; directions on a grid from -2.0 to 1.0, the zero vector among them,
\* and two directions with a component f32::MAX; distances along the ray
RayOrigins == {VZERO, MainOrigin, vec3(-SCALE, SCALE \div 2, (3 * SCALE) \div 10)}
DirCoords == {-(2 * SCALE), -SCALE, -(SCALE \div 2), 0, (3 * SCALE) \div 10, SCALE \div 2, SCALE}
Directions == (DirCoords \X DirCoords \X DirCoords)
                 \cup {vec3(MAXF, 0, 0), vec3(0, MAXF, -SCALE)}
Distances == {0, SCALE \div 2, SCALE, (3 * SCALE) \div 2, 4 * SCALE}

\* Ray::new(origin, d), then ray.at(t) and ray.at(0)
CallRayNew ==
    /\ ev = NoCall
    /\ \E o \in RayOrigins, d \in Directions, t \in Distances :
          \E r \in {RayNew(o, d)} :
              ev' = [op |-> "ray", origin |-> o, d |-> d, t |-> t, ray |-> r,
                     at |-> RayAt(r, t), at0 |-> RayAt(r, 0)]
    /\ UNCHANGED <<cfg, sc, vc, rd>>

(***************************************************************************)
(* u32 arithmetic of round_to_nearest (main.rs).  A u32 is the pair of its *)
(* 16-bit halves <<hi, lo>>, so that all of its 32 bits are kept.          *)
(***************************************************************************)
Half == 2 ^ 16
U32(hi, lo) == <<hi, lo>>
U32_MAX == U32(Half - 1, Half - 1)
\* a small number as a u32, and a u32 below 2^31 as a number
FromNat(n) == U32(n \div Half, n % Half)
ToNat(a) == a[1] * Half + a[2]
\* a + b and whether it overflows; a - b for b <= a
AddOverflows(a, b) == a[1] + b[1] + ((a[2] + b[2]) \div Half) >= Half
AddU32(a, b) == U32((a[1] + b[1] + ((a[2] + b[2]) \div Half)) % Half, (a[2] + b[2]) % Half)
SubU32(a, b) ==
    IF a[2] >= b[2] THEN U32(a[1] - b[1], a[2] - b[2])
    ELSE U32(a[1] - b[1] - 1, a[2] + Half - b[2])
LeU32(a, b) == a[1] < b[1] \/ (a[1] = b[1] /\ a[2] <= b[2])
\* a mod m for a small m > 0
ModU32(a, m) == ((a[1] % m) * (Half % m) + a[2]) % m
\* the bitwise and of two numbers of n bits, and of two u32
RECURSIVE AndBits(_, _, _)
AndBits(a, b, n) ==
    IF n = 0 THEN 0 ELSE (a % 2) * (b % 2) + 2 * AndBits(a \div 2, b \div 2, n - 1)
AndU32(a, b) == U32(AndBits(a[1], b[1], 16), AndBits(a[2], b[2], 16))

\* round_to_nearest::<M>(x) = (x + M - 1) & (u32::MAX - M + 1), the sum not
\* overflowing
round_to_nearest(M, x) ==
    AndU32(SubU32(AddU32(x, FromNat(M)), FromNat(1)),
           AddU32(SubU32(U32_MAX, FromNat(M)), FromNat(1)))
\* WIDTH = round_to_nearest::<{ f32x8::LANES }>(1920)
WIDTH == ToNat(round_to_nearest(LANES, FromNat(1920)))

\* the values of M are 1 .. MaxModulus; the values of x are the small
\* numbers, 1920, and the numbers around 2^16 and just below 2^32
MaxModulus == 9
Moduli == 1..MaxModulus
RoundInputs ==
    {FromNat(n) : n \in (0..40) \cup {1913, 1919, 1920, 1921}
                            \cup ((Half - 10)..(Half + 10))}
        \cup {U32(Half - 1, lo) : lo \in (Half - 20)..(Half - 1)}

\* round_to_nearest::<M>(x); when x + M - 1 overflows, the call panics (or
\* is rejected in a const context) in a build that checks overflow, and
\* goes on with the wrapped sum in a build that does not
CallRound ==
    /\ ev = NoCall
    /\ \E M \in Moduli, x \in RoundInputs :
          IF AddOverflows(x, FromNat(M - 1))
          THEN \/ ev' = [op |-> "round", M |-> M, x |-> x, overflow |-> TRUE, out |-> "panic"]
               \/ ev' = [op |-> "round", M |-> M, x |-> x, overflow |-> TRUE,
                          out |-> round_to_nearest(M, x)]
          ELSE ev' = [op |-> "round", M |-> M, x |-> x, overflow |-> FALSE,
                      out |-> round_to_nearest(M, x)]
    /\ UNCHANGED <<cfg, sc, vc, rd>>

FnNext ==
    \/ CallPositions
    \/ CallConv
    \/ CallGain
    \/ CallScreenUV
    \/ CallDist
    \/ CallRayNew
    \/ CallRound
FnSpec == FnInit /\ [][FnNext]_vars

(***************************************************************************)
(* Properties of single calls, checked under FnSpec                        *)
(***************************************************************************)
\* C11: for a width that is a multiple of 8, the 8-lane work list has
\* width * height / 8 groups; group g (from 0) holds x = (8g mod width) + i in
\* lane i and the one y = 8g div width; no lane lies outside the grid, and
\* every pixel of the grid is in exactly one lane of exactly one group.
C11_VectorWorkList ==
    (ev.op = "positions" /\ ev.width % LANES = 0) =>
        /\ Len(ev.out) = (ev.width * ev.height) \div LANES
        /\ \A g \in 1..Len(ev.out) :
              /\ ev.out[g][2] = (LANES * (g - 1)) \div ev.width
              /\ ev.out[g][2] < ev.height
              /\ \A l \in Lanes :
                    /\ ev.out[g][1][l] = ((LANES * (g - 1)) % ev.width) + (l - 1)
                    /\ ev.out[g][1][l] < ev.width
        /\ \A x \in 0..(ev.width - 1), y \in 0..(ev.height - 1) :
              Cardinality({gl \in (1..Len(ev.out)) \X Lanes :
                              ev.out[gl[1]][2] = y /\ ev.out[gl[1]][1][gl[2]] = x}) = 1
C11_Witness ==
    /\ ev.op = "positions"
    /\ ev.width = 2 * LANES
    /\ ev.height = 2
    /\ Len(ev.out) = 4

\* C12 (as claimed): a channel x whose scaled value x * 255 is above 255 is
\* not saturated to 255 but wrapped into the byte range.
C12_ConvWraps ==
    (ev.op = "conv" /\ Exact(ev.x) /\ ev.x * 255 >= 256 * SCALE) =>
        ev.out = ((ev.x * 255) \div SCALE) % 256

\* C12 (amended): conv never fails and never wraps: it returns floor(x * 255)
\* for x in [0,1], 255 for every x >= 1 (infinity included), and 0 for every
\* x <= 0 and for NaN.
C12_ConvSaturates ==
    ev.op = "conv" =>
        /\ ev.out \in 0..255
        /\ ev.x = NAN => ev.out = 0
        /\ (ev.x # NAN /\ ev.x <= 0) => ev.out = 0
        /\ (ev.x # NAN /\ ev.x >= SCALE) => ev.out = 255
        /\ (0 <= ev.x /\ ev.x <= SCALE) => ev.out = (ev.x * 255) \div SCALE
C12_Witness == ev.op = "conv" /\ ev.x = 2 * SCALE /\ ev.out = 255

ShortSide == Min(ev.width, ev.height)

\* C14 (as claimed): over the pixels of the shorter screen axis uv lies in
\* [-1,1], and the first and the last pixel of that axis attain the two
\* endpoints -1 and 1.
C14_UVSpansUnit ==
    ev.op = "uv" =>
        /\ ev.width = ShortSide =>
              /\ -SCALE <= ev.out[1] /\ ev.out[1] <= SCALE
              /\ ev.x \in {0, ev.width - 1} => Abs(ev.out[1]) = SCALE
        /\ ev.height = ShortSide =>
              /\ -SCALE <= ev.out[2] /\ ev.out[2] <= SCALE
              /\ ev.y \in {0, ev.height - 1} => Abs(ev.out[2]) = SCALE

\* C14 (amended): uv = (2 * pos - res) / (-min(width, height)) component by
\* component; over the n pixels of the shorter axis it lies in (-1, 1]: the
\* first pixel gives exactly 1, the last gives -1 + 2/n, and -1 is not
\* attained.
C14_UVHalfOpen ==
    ev.op = "uv" =>
        /\ 2 * Abs(ev.out[1] * ShortSide + (2 * ev.x - ev.width) * SCALE) <= ShortSide
        /\ 2 * Abs(ev.out[2] * ShortSide + (2 * ev.y - ev.height) * SCALE) <= ShortSide
        /\ ev.width = ShortSide =>
              /\ -SCALE < ev.out[1] /\ ev.out[1] <= SCALE
              /\ ev.x = 0 => ev.out[1] = SCALE
              /\ ev.x = ev.width - 1 =>
                    2 * Abs((ev.out[1] + SCALE) * ev.width - 2 * SCALE) <= ev.width
        /\ ev.height = ShortSide =>
              /\ -SCALE < ev.out[2] /\ ev.out[2] <= SCALE
              /\ ev.y = 0 => ev.out[2] = SCALE
              /\ ev.y = ev.height - 1 =>
                    2 * Abs((ev.out[2] + SCALE) * ev.height - 2 * SCALE) <= ev.height
C14_Witness ==
    /\ ev.op = "uv"
    /\ ev.width = 4 /\ ev.height = 6
    /\ ev.x = 3
    /\ ev.out[1] = -(SCALE \div 2)

\* C15: for a Union node (of primitive or composite nodes) and a point p the
\* distance is the smaller of the distances of its two nodes, a NaN distance
\* being passed over as by f32::min, and it is the distance of the Union of
\* the two nodes in the other order.
C15_UnionIsMin ==
    (ev.op = "dist" /\ ev.node.kind = "Union") =>
        LET da == dist(ev.node.a, ev.p)
            db == dist(ev.node.b, ev.p)
        IN  /\ (da # NAN /\ db # NAN) => ev.out \in {da, db} /\ ev.out <= da /\ ev.out <= db
            /\ (da = NAN) => ev.out = db
            /\ (db = NAN) => ev.out = da
            /\ ev.out = dist(Union(ev.node.b, ev.node.a), ev.p)
C15_Witness ==
    /\ ev.op = "dist"
    /\ ev.node.kind = "Union"
    /\ ev.node.b.kind = "Translate"
    /\ Exact(ev.out)
    /\ ev.out = dist(ev.node.b, ev.p)
    /\ ev.out < dist(ev.node.a, ev.p)

\* C16: for a Translate node of a child and an offset v, the distance at p is
\* the distance of the child at p - v, and the call leaves the node (child
\* and offset) as it was.
C16_TranslateShifts ==
    (ev.op = "dist" /\ ev.node.kind = "Translate") =>
        /\ ev.out = dist(ev.given.child, vec3(FSub(ev.p[1], ev.given.pos[1]),
                                               FSub(ev.p[2], ev.given.pos[2]),
                                               FSub(ev.p[3], ev.given.pos[3])))
        /\ ev.node = ev.given
C16_Witness ==
    /\ ev.op = "dist"
    /\ ev.node.kind = "Translate"
    /\ ev.node.pos # VZERO
    /\ Exact(ev.out)
    /\ ev.out # dist(ev.node.child, ev.p)

\* the square of the length of the point of the call, and of the radius, not
\* rounded
ExactLengthSq == ev.p[1] * ev.p[1] + ev.p[2] * ev.p[2] + ev.p[3] * ev.p[3]
ExactRadiusSq == ev.node.r * ev.node.r

InputLength == Length(ev.d)
Travelled == Length(VSub(ev.at, ev.origin))
\* the direction stored is d / |d| component by component, rounded
IsNormalised ==
    \A i \in 1..3 : 2 * Abs(ev.ray.dir[i] * InputLength - ev.d[i] * SCALE) <= InputLength
\* the origin is kept, the stored direction has length 1, at(0) is the origin
\* and at(t) lies t from the origin, each within the rounding of the
\* arithmetic
IsUnitRay ==
    /\ ev.ray.origin = ev.origin
    /\ Abs(Length(ev.ray.dir) - SCALE) <= 1
    /\ ev.at0 = ev.origin
    /\ Abs(Travelled - ev.t) * SCALE <= ev.t + 2 * SCALE

RECURSIVE StepSum(_)
StepSum(k) == IF k = 0 THEN 0 ELSE FAdd(StepSum(k - 1), sc.trail[k].di)
\* the hit test rn < t * EPSILON of iteration k, with rn the map at the point
\* reached and t the distance with the step of iteration k added
TestAfter(k) ==
    Eval(StepSum(k), LAMBDA t : LtEps(dist(cfg.scene, RayAt(TheRay, t)), t))
\* the map evaluations of the first k iterations: one each, two with the
\* fallback
RECURSIVE EvalsOf(_)
EvalsOf(k) == IF k = 0 THEN 0 ELSE EvalsOf(k - 1) + (IF sc.trail[k].fb THEN 2 ELSE 1)

\* C19: when the scalar trace has returned a hit, it returned in the first
\* iteration k <= 64 whose test rn < t * EPSILON holds with t including the
\* step of that iteration; the distance returned is that t, the sum of the
\* steps of iterations 1..k; and the iteration count, the evaluation count
\* and the loop state are those of iteration k: nothing ran after it.
C19_ScalarEarlyExit ==
    (sc.pc = "done" /\ sc.hit) =>
        /\ sc.i \in 1..MAX_STEPS
        /\ Len(sc.trail) = sc.i
        /\ TestAfter(sc.i)
        /\ \A j \in 1..(sc.i - 1) : ~TestAfter(j)
        /\ sc.distance = StepSum(sc.i)
        /\ sc.t = sc.distance
        /\ sc.evals = EvalsOf(sc.i)
C19_Witness ==
    /\ sc.pc = "done"
    /\ sc.hit
    /\ sc.i > 2
    /\ sc.i < MAX_STEPS
    /\ vc.i > 0
    /\ \E j \in 1..sc.i : sc.trail[j].fb

\* every lane was finished in the last iteration of the 8-lane loop
EveryLaneFinished == \A l \in Lanes : vc.finished[l]

\* C20: the 8-lane loop is left before its 64 iterations are used up only by
\* the break of an iteration in which every lane is finished (hit in this
\* iteration, or t > MAX_DIST); after an iteration with an unfinished lane
\* the loop goes on, and a loop that never finds every lane finished has run
\* exactly 64 iterations when the trace returns.
C20_VectorLoopExit ==
    /\ vc.i <= MAX_STEPS
    /\ \A l \in Lanes :
          /\ vc.finished[l] => vc.hit[l] \/ FGt(vc.t[l], MAX_DIST)
          /\ ~vc.finished[l] => ~vc.hit[l]
    /\ vc.pc = "break" => EveryLaneFinished
    /\ (vc.pc = "loop" /\ vc.i > 0) => ~EveryLaneFinished
    /\ (vc.pc = "done" /\ vc.i < MAX_STEPS) => EveryLaneFinished
    /\ (vc.pc = "done" /\ ~EveryLaneFinished) => vc.i = MAX_STEPS
C20_Witness ==
    /\ cfg.wave = "group"
    /\ vc.pc = "done"
    /\ vc.i = MAX_STEPS
    /\ \E l \in Lanes : vc.finished[l]
    /\ \E l \in Lanes : ~vc.finished[l]

\* the map value of lane l in the iteration that starts from the current
\* distances of the 8-lane tracer
LaneH(l) == dist(cfg.scene, RayAt(LaneRays[l], vc.t[l]))

\* C21: in every iteration of the 8-lane loop that does not leave the loop,
\* a lane finished in that iteration keeps its t, and the t of an unfinished
\* lane grows by exactly the map value h of that lane in that iteration.
C21_MaskedAdvance ==
    [][(vc.pc = "loop" /\ vc'.pc = "loop" /\ vc'.i = vc.i + 1) =>
          \A l \in Lanes :
              /\ vc'.finished[l] => vc'.t[l] = vc.t[l]
              /\ ~vc'.finished[l] => vc'.t[l] = FAdd(vc.t[l], LaneH(l)) /\ vc'.t[l] >= vc.t[l]]_vars
C21_Witness ==
    /\ vc.pc = "loop"
    /\ vc.i > 2
    /\ \E l \in Lanes : vc.finished[l] /\ vc.t[l] > 0
    /\ \E l \in Lanes : ~vc.finished[l] /\ vc.t[l] > 0

\* the scalar loop has just run one iteration
ScalarIterated == sc.pc = "loop" /\ sc'.i = sc.i + 1
\* the candidate overstep rc + w * rc * max(0.6, (di - rp + rc) / (di + rp - rc))
\* of the iteration that starts from the current state of the scalar loop
Candidate ==
    FAdd(sc.rc, FMul(FMul(W_DEFAULT, sc.rc),
                     FMax(RATIO_FLOOR,
                          FDiv(FAdd(FSub(sc.di, sc.rp), sc.rc),
                               FSub(FAdd(sc.di, sc.rp), sc.rc)))))
\* the map at the ray parameter t + d
MapAhead(d) == dist(cfg.scene, RayAt(TheRay, FAdd(sc.t, d)))
\* the candidate is within reach, di <= rc + rn, and the test of the code for
\* the fallback, di > rc + rn; both are false when rc + rn is NaN
CandidateWithin ==
    Eval(FAdd(sc.rc, MapAhead(Candidate)), LAMBDA reach :
        Candidate # NAN /\ reach # NAN /\ Candidate <= reach)
CandidateAbove ==
    Eval(FAdd(sc.rc, MapAhead(Candidate)), LAMBDA reach :
        Candidate # NAN /\ reach # NAN /\ Candidate > reach)

\* C22 (as claimed): in every scalar iteration the step added to t is the
\* candidate rc + w * rc * max(0.6, (di - rp + rc) / (di + rp - rc)) when
\* di <= rc + rn, and rc otherwise, rn then being evaluated again at
\* ray.at(t + rc).
C22_FallbackUnlessWithin ==
    [][ScalarIterated =>
          /\ sc'.fb = ~CandidateWithin
          /\ sc'.di = (IF CandidateWithin THEN Candidate ELSE sc.rc)]_vars

\* C22 (amended): in every scalar iteration the step added to t is rc when
\* the candidate rc + w * rc * max(0.6, (di - rp + rc) / (di + rp - rc)) is
\* above rc + rn, and the candidate otherwise, also when rc + rn is NaN; in
\* the first case rn is evaluated again at ray.at(t + rc); the rn of the
\* step taken is the one of the hit test and, when the loop goes on, the
\* next rc, the next rp being the old rc.
C22_FallbackWhenAbove ==
    [][ScalarIterated =>
          LET step == IF CandidateAbove THEN sc.rc ELSE Candidate
              rn == MapAhead(step)
          IN  /\ sc'.fb = CandidateAbove
              /\ sc'.di = step
              /\ sc'.t = FAdd(sc.t, step)
              /\ sc'.evals = sc.evals + (IF CandidateAbove THEN 2 ELSE 1)
              /\ sc'.hit = LtEps(rn, sc'.t)
              /\ sc'.pc = "loop" => sc'.rc = rn /\ sc'.rp = sc.rc /\ ~sc'.hit]_vars
C22_Witness ==
    /\ sc.pc = "loop"
    /\ sc.i > 2
    /\ sc.fb
    /\ sc.di = sc.rp
    /\ \E j \in 1..sc.i : ~sc.trail[j].fb

\* the iterations and the map evaluations of the two tracers so far: at most
\* 64 iterations each, one evaluation per iteration of the 8-lane loop, and
\* one per iteration of the scalar loop plus one per fallback
CountsBounded ==
    /\ sc.i <= MAX_STEPS
    /\ vc.i <= MAX_STEPS
    /\ vc.evals = vc.i
    /\ Len(sc.trail) = sc.i
    /\ sc.evals = sc.i + Cardinality({j \in 1..sc.i : sc.trail[j].fb})
    /\ sc.evals <= 2 * MAX_STEPS

\* the steps the two tracers can still take: the iterations left of each
\* loop and the return after it
Remaining ==
    (IF sc.pc = "done" THEN 0 ELSE MAX_STEPS + 1 - sc.i)
      + (IF vc.pc = "done" THEN 0 ELSE IF vc.pc = "break" THEN 1 ELSE MAX_STEPS + 1 - vc.i)

\* C23: both tracers return after at most 64 iterations of their loops
\* (every step uses up one of the steps that remain, and a tracer that has
\* not returned can step); the 8-lane tracer evaluates the map once per
\* iteration (at most 64 times) and the scalar tracer once per iteration and
\* twice exactly in the iterations that take the fallback (at most 128
\* times).
C23_BoundedMarching ==
    [][/\ CountsBounded'
       /\ Remaining' < Remaining
       /\ Remaining' >= 0
       /\ Remaining' = 0 <=> BothDone'
       /\ BothDone' \/ sc'.pc = "loop" \/ (sc'.pc = "done" /\ vc'.pc \in {"loop", "break"})]_vars
C23_Witness ==
    /\ BothDone
    /\ sc.i = MAX_STEPS
    /\ vc.i = MAX_STEPS
    /\ sc.evals > sc.i

\* C24 (as claimed): for every M > 0 and every x with x + M - 1 <= u32::MAX,
\* r = round_to_nearest::<M>(x) is a multiple of M with x <= r < x + M; and
\* WIDTH is a multiple of the lane count 8.
C24_RoundsUpToMultiple ==
    /\ WIDTH % LANES = 0
    /\ (ev.op = "round" /\ ~ev.overflow) =>
          /\ ModU32(ev.out, ev.M) = 0
          /\ LeU32(ev.x, ev.out)
          /\ LeU32(ev.out, AddU32(ev.x, FromNat(ev.M - 1)))

\* the hit test h < d * EPSILON with h the map at ray.at(d)
JustifiedAt(ray, d) == LtEps(dist(cfg.scene, RayAt(ray, d)), d)

\* C25: whenever a tracer returns hit = true for a ray (a lane) with the
\* distance d, the map at ray.at(d) is below d * EPSILON; for the 8-lane
\* tracer also in a lane that hit in an iteration before the last one, and
\* when the loop ended by using up its 64 iterations.
C25_HitJustified ==
    /\ (sc.pc = "done" /\ sc.hit) => JustifiedAt(TheRay, sc.distance)
    /\ vc.pc = "done" =>
          \A l \in Lanes : vc.hit[l] => JustifiedAt(LaneRays[l], vc.distance[l])
C25_Witness ==
    /\ BothDone
    /\ sc.hit
    /\ cfg.wave = "group"
    /\ vc.i = MAX_STEPS
    /\ \E l \in Lanes : vc.hit[l]
    /\ \E l \in Lanes : ~vc.hit[l]

\* the first candidate of the scalar tracer, 1 + 0.87 * 1 * 0.6 = 1.522
FirstSample == FAdd(SCALE, FMul(FMul(W_DEFAULT, SCALE), RATIO_FLOOR))
\* what C26 says of one scalar iteration, but for the growth of t: no map
\* evaluation at a ray parameter below 1; the first iteration samples at
\* 1.522, and at 1 when it falls back, and leaves t at 1.522 or 1; a hit has
\* a distance of 1 or more
FirstStepLong ==
    /\ ~FLt(FAdd(sc.t, Candidate), SCALE)
    /\ sc'.fb => ~FLt(FAdd(sc.t, sc.rc), SCALE)
    /\ sc.i = 0 =>
          /\ FAdd(sc.t, Candidate) = FirstSample
          /\ sc'.fb => FAdd(sc.t, sc.rc) = SCALE
          /\ sc'.t = (IF sc'.fb THEN SCALE ELSE FirstSample)
    /\ sc'.hit => sc'.distance = sc'.t /\ sc'.distance >= SCALE
\* t is known exactly or is not finite: beyond the window only the class of
\* a finite t is kept, and two such t cannot be compared
Comparable(t) == Exact(t) \/ ~Finite(t)

\* C26 (as claimed): the scalar tracer never evaluates the map at a ray
\* parameter below 1 (first sample at 1.522, fallback sample at 1); after
\* the first iteration t is 1 or 1.522; t strictly increases in every later
\* iteration; every hit has a distance of 1 or more.
C26_MinimumFirstStep ==
    [][ScalarIterated =>
          /\ FirstStepLong
          /\ (sc.i > 0 /\ Comparable(sc.t)) => FGt(sc'.t, sc.t)]_vars

\* C26 (amended): as claimed, but t strictly increases in every later
\* iteration only while it is finite; when di + rp - rc is 0 the candidate
\* and t become infinite, and from then on t is infinite or NaN.
C26_MinimumFirstStepFinite ==
    [][ScalarIterated =>
          /\ FirstStepLong
          /\ (sc.i > 0 /\ Exact(sc.t)) => FGt(sc'.t, sc.t)
          /\ ~Finite(sc.t) => ~Finite(sc'.t)]_vars
C26_Witness ==
    /\ cfg.origin # MainOrigin
    /\ sc.pc = "done"
    /\ sc.hit
    /\ sc.fb
    /\ sc.distance = SCALE
    /\ dist(cfg.scene, cfg.origin) < SCALE

\* the 8-lane tracer takes a step after its first iteration: a further
\* iteration, or the return
VectorContinued == vc.i > 0 /\ vc' # vc

\* C27: a lane that is finished in an iteration of the 8-lane loop is
\* finished in every later iteration with the same hit bit and the same t,
\* and is returned with that hit bit and that t as its distance.
C27_FinishedStays ==
    [][VectorContinued =>
          \A l \in Lanes :
              vc.finished[l] =>
                  /\ vc'.finished[l]
                  /\ vc'.hit[l] = vc.hit[l]
                  /\ vc'.t[l] = vc.t[l]
                  /\ vc'.pc = "done" => vc'.distance[l] = vc.t[l]]_vars
C27_Witness ==
    /\ vc.pc = "loop"
    /\ vc.i > 10
    /\ \E l \in Lanes : vc.finished[l] /\ vc.hit[l] /\ Exact(vc.t[l])
    /\ \E l \in Lanes : ~vc.finished[l] /\ ~Exact(vc.t[l])

\* rays to put in the other lanes: one that meets the sphere of main head-on
\* and one that misses every scene
OtherRays ==
    {PixelRay(MainOrigin, 32, 32, 64, 64),
     PixelRay(cfg.origin, 0, 0, 64, 64)}
\* the rays of the wave with every lane but lane i replaced by the ray other
Replaced(i, other) == PerLane(LAMBDA l : IF l = i THEN LaneRays[i] ELSE other)

\* C28: the distance and the hit bit the 8-lane tracer returns for lane i
\* are those it returns for lane i when the rays of the other 7 lanes are
\* replaced by other rays, whatever that does to the number of iterations.
C28_LaneIndependent ==
    vc.pc = "done" =>
        \A i \in Lanes : \A other \in OtherRays :
            \E alone \in {VectorTrace(cfg.scene, Replaced(i, other))} :
                /\ alone.distance[i] = vc.distance[i]
                /\ alone.hit[i] = vc.hit[i]
C28_Witness ==
    /\ vc.pc = "done"
    /\ cfg.wave = "group"
    /\ vc.i = MAX_STEPS
    /\ vc.hit[OwnLane]
    /\ Exact(vc.distance[OwnLane])
    /\ \E l \in Lanes : ~vc.hit[l] /\ vc.distance[l] # vc.distance[OwnLane]

\* C29: t > MAX_DIST is false for every finite t, so a lane of the 8-lane
\* tracer that is finished without a hit has an infinite t; a wave with a
\* lane that never passes the hit test and whose t stays finite is never
\* left by the break: it runs all 64 iterations, with 64 map evaluations.
C29_MaxDistUnreachable ==
    /\ \A l \in Lanes :
          /\ Finite(vc.t[l]) => ~FGt(vc.t[l], MAX_DIST)
          /\ (vc.finished[l] /\ ~vc.hit[l]) => vc.t[l] = INF
    /\ \A l \in Lanes :
          (~vc.hit[l] /\ vc.t[l] # INF) =>
              /\ vc.pc # "break"
              /\ vc.pc = "done" => vc.i = MAX_STEPS /\ vc.evals = MAX_STEPS
C29_Witness ==
    /\ vc.pc = "done"
    /\ vc.evals = MAX_STEPS
    /\ \E l \in Lanes : ~vc.hit[l] /\ ~vc.finished[l] /\ Finite(vc.distance[l]) /\ vc.distance[l] > SCALE
    /\ \E l \in Lanes : vc.hit[l]

\* the map at the origin of the ray of lane l
MapAtOrigin(l) == dist(cfg.scene, LaneRays[l].origin)

\* C30: a lane of the 8-lane tracer whose map value at the ray origin is
\* exactly 0 is not a hit in the first iteration (0 < EPSILON * 0 is false),
\* steps by 0 and stays at t = 0 for all 64 iterations, and is returned with
\* hit = false and distance 0; a lane whose map value at the origin is
\* negative is returned with hit = true and distance 0.
C30_StartOnSurface ==
    \A l \in Lanes :
        /\ MapAtOrigin(l) = 0 =>
              /\ vc.t[l] = 0 /\ ~vc.hit[l] /\ ~vc.finished[l]
              /\ vc.pc # "break"
              /\ vc.pc = "done" => vc.i = MAX_STEPS /\ vc.distance[l] = 0
        /\ MapAtOrigin(l) < 0 =>
              /\ vc.t[l] = 0
              /\ vc.i > 0 => vc.hit[l] /\ vc.finished[l]
              /\ vc.pc = "done" => vc.hit[l] /\ vc.distance[l] = 0
C30_Witness ==
    /\ vc.pc = "done"
    /\ cfg.scene = MainScene
    /\ MapAtOrigin(OwnLane) = 0
    /\ vc.i = MAX_STEPS
    /\ ~vc.hit[OwnLane]
    /\ vc.distance[OwnLane] = 0

====
